---- MODULE Spec2Model ----
(***************************************************************************)
(* Conversational RAG service: the upload and chat endpoints of            *)
(* app/api/fastapi_app.py, the chat orchestrator of                        *)
(* app/services/agent_bot.py, the history store of                         *)
(* app/db/mango_database.py, the semantic memory of                        *)
(* app/db/pinecone_memory_db.py and the indexer of                         *)
(* app/services/preprocess.py.                                             *)
(*                                                                         *)
(* Strings the code builds or takes apart (session ids, questions, memory  *)
(* ids) are sequences of one-character strings.  Requests are coroutines   *)
(* of one asyncio event loop: `holder` is the request that occupies the    *)
(* loop, 0 when the loop is free; a request gives the loop up only at an   *)
(* `await`.                                                                *)
(***************************************************************************)
EXTENDS Integers, Sequences, FiniteSets, TLC

\* ------------------------------------------------------------------ bounds
NumReqs == 2
MaxReq == 3
MaxFiles == 1
MaxUrls == 1
DigestLen == 1
MaxStores == 3
MaxTurns == 3
MaxLimit == 2
MaxSources == 3

\* ------------------------------------------------------- program constants
chat_history_limit == 5
retriever_k == 5
top_k == 5
HTTP_200_OK == 200
HTTP_400_BAD_REQUEST == 400
HTTP_500_INTERNAL_SERVER_ERROR == 500

\* ------------------------------------------------------------ input domains
Reqs == 1..NumReqs
S1 == <<"s", "1">>
S2 == <<"s", "2">>
SessionIds == {S1, S2}
Q1 == <<"a", "b">>
Q2 == <<"b", "a">>
Questions == {Q1, Q2}
Answers == {"A1"}
FileNames == {[stem |-> "f", ext |-> ".pdf"], [stem |-> "g", ext |-> ".txt"],
              [stem |-> "h", ext |-> ".docx"]}
Urls == {[scheme |-> "http://", rest |-> "u"]}

SeqsUpTo(S, n) == UNION {[1..k -> S] : k \in 0..n}

RECURSIVE SumSeq(_)
SumSeq(s) == IF s = <<>> THEN 0 ELSE Head(s) + SumSeq(Tail(s))

RECURSIVE Pow(_, _)
Pow(b, e) == IF e = 0 THEN 1 ELSE b * Pow(b, e - 1)

RECURSIVE FilterSeq(_, _)
FilterSeq(s, sid) ==
    IF s = <<>> THEN <<>>
    ELSE IF Head(s).session_id = sid
         THEN <<Head(s)>> \o FilterSeq(Tail(s), sid)
         ELSE FilterSeq(Tail(s), sid)

LastN(s, n) == IF Len(s) <= n THEN s ELSE SubSeq(s, Len(s) - n + 1, Len(s))

\* ------------------------------------------------------------------- state
VARIABLES
    pc,               \* per request: position in its handler
    req,              \* per request: the form fields it was sent with
    loc,              \* per request: the handler's local variables
    resp,             \* per request: the HTTP response it produced
    faults,           \* per request: collaborator calls that failed in it
    did,              \* per request: steps that took effect in it
    holder,           \* the request occupying the event loop, 0 if free
    retriever_cache,  \* fastapi_app.retriever_cache
    index,            \* the document vector index, by namespace
    history,          \* the agent_history collection, in insertion order
    memory,           \* the memory vector index, a set of entries
    tempfiles,        \* temporary files present on disk
    ntemp,            \* temporary files created so far
    nreq,             \* requests received so far
    server,           \* "running" until the lifespan's shutdown part has run
    mongo_clients     \* the AsyncMongoDatabase instances' clients: open or closed

vars == <<pc, req, loc, resp, faults, did, holder, retriever_cache, index,
          history, memory, tempfiles, ntemp, nreq, server, mongo_clients>>

\* Python None, and the exception values the handlers meet.
NoneV == [kind |-> "None"]
HTTPException(code, detail) ==
    [kind |-> "HTTPException", status_code |-> code, detail |-> detail]
AppException(msg) == [kind |-> "AppException", message |-> msg]

NoReq == [kind |-> "none"]
NoLoc == [retriever |-> NoneV, history |-> <<>>, semantic_memory |-> {},
          final_prompt |-> <<>>, response_text |-> "", retrieved |-> {},
          temp_paths |-> <<>>, temp |-> NoneV]
NoResp == [status |-> 0]

\* ------------------------------------------------ app/db/pinecone_memory_db.py
HexDigits == <<"0", "1", "2", "3", "4", "5", "6", "7",
               "8", "9", "a", "b", "c", "d", "e", "f">>

CharCode(c) ==
    CASE c = "a" -> 1 [] c = "b" -> 2 [] c = "s" -> 3
      [] c = "1" -> 4 [] c = "2" -> 5 [] c = "-" -> 6 [] OTHER -> 7

\* n written as exactly w hexadecimal digits (hexdigest is fixed-width).
ToHex(n, w) == [i \in 1..w |-> HexDigits[((n \div Pow(16, w - i)) % 16) + 1]]

\* hashlib.md5(text.encode()).hexdigest(): a deterministic map of texts of
\* any length onto digests of one fixed width, hence not injective.  The
\* digest here is a checksum of DigestLen hexadecimal digits.
md5_hexdigest(text) ==
    ToHex(SumSeq([i \in 1..Len(text) |-> CharCode(text[i])]) % Pow(16, DigestLen),
          DigestLen)

\* The id without the owner.
mem_id_of_digest_only(user_id, memory_text) == md5_hexdigest(memory_text)

\* f"{user_id}-{digest}"
mem_id_of(user_id, memory_text) ==
    user_id \o <<"-">> \o md5_hexdigest(memory_text)

\* index.upsert([item]): an entry with the same id is replaced.
upsert(mem, item) == {e \in mem : e.id # item.id} \cup {item}

\* A store that answers a failed embedding or upsert with a log line only.
store_memory_swallow(mem, user_id, memory_text, embed_ok, upsert_ok) ==
    IF ~embed_ok \/ ~upsert_ok
    THEN [raised |-> FALSE, memory |-> mem]
    ELSE [raised |-> FALSE,
          memory |-> upsert(mem, [id |-> mem_id_of(user_id, memory_text),
                                  user_id |-> user_id,
                                  memory |-> memory_text])]

store_memory(mem, user_id, memory_text, embed_ok, upsert_ok) ==
    IF ~embed_ok \/ ~upsert_ok
    THEN [raised |-> TRUE, memory |-> mem]
    ELSE [raised |-> FALSE,
          memory |-> upsert(mem, [id |-> mem_id_of(user_id, memory_text),
                                  user_id |-> user_id,
                                  memory |-> memory_text])]

\* A retrieval that answers a failure with "no memories".
retrieve_memory_lenient(mem, user_id, pick, ok) ==
    [raised |-> FALSE,
     value |-> IF ok THEN {e.memory : e \in {m \in pick : m.user_id = user_id}} ELSE {}]

\* index.query(filter={"user_id": user_id}, top_k): the texts of at most
\* top_k entries of that user; `pick` is the similarity search's choice.
retrieve_memory(mem, user_id, pick, ok) ==
    IF ~ok
    THEN [raised |-> TRUE, value |-> {}]
    ELSE [raised |-> FALSE,
          value |-> {e.memory : e \in {m \in pick : m.user_id = user_id}}]

MemoryMatches(mem, user_id) ==
    LET mine == {m \in mem : m.user_id = user_id}
    IN  IF Cardinality(mine) <= top_k THEN {mine}
        ELSE {p \in SUBSET mine : Cardinality(p) = top_k}

\* --------------------------------------------------- app/db/mango_database.py
Reverse(s) == [i \in 1..Len(s) |-> s[Len(s) + 1 - i]]

\* An append that answers a failed insert with a log line only.
save_chat_swallow(hist, session_id, user_input, bot_response, io_ok) ==
    IF ~io_ok
    THEN [raised |-> FALSE, history |-> hist]
    ELSE [raised |-> FALSE,
          history |-> Append(hist, [session_id |-> session_id,
                                    user_input |-> user_input,
                                    chatbot_response |-> bot_response])]

save_chat(hist, session_id, user_input, bot_response, io_ok) ==
    IF ~io_ok
    THEN [raised |-> TRUE, history |-> hist]
    ELSE [raised |-> FALSE,
          history |-> Append(hist, [session_id |-> session_id,
                                    user_input |-> user_input,
                                    chatbot_response |-> bot_response])]

\* A history read that lets its error out.
fetch_recent_chats_raising(hist, session_id, limit, io_ok) ==
    IF ~io_ok
    THEN [raised |-> TRUE, value |-> <<>>]
    ELSE [raised |-> FALSE,
          value |-> [i \in 1..Len(LastN(FilterSeq(hist, session_id), limit)) |->
                       [User |-> LastN(FilterSeq(hist, session_id), limit)[i].user_input,
                        Assistant |-> LastN(FilterSeq(hist, session_id), limit)[i].chatbot_response]]]

\* The same read without chats.reverse(): newest first.
fetch_recent_chats_newest_first(hist, session_id, limit, io_ok) ==
    IF ~io_ok
    THEN [raised |-> FALSE, value |-> <<>>]
    ELSE LET newest_first == Reverse(FilterSeq(hist, session_id))
             chats == IF limit = 0 THEN newest_first
                      ELSE SubSeq(newest_first, 1,
                             IF Len(newest_first) < limit THEN Len(newest_first) ELSE limit)
         IN  [raised |-> FALSE,
              value |-> [i \in 1..Len(chats) |->
                           [User |-> chats[i].user_input,
                            Assistant |-> chats[i].chatbot_response]]]

\* find(session_id).sort("_id", -1).limit(limit), reversed, then rendered
\* one "User: .. Assistant: .." block per chat; "" is the empty sequence.
\* The driver creates each _id at insert_one, increasing within the process,
\* so "_id" descending is newest insertion first; a cursor's limit(0) means
\* no limit.
fetch_recent_chats(hist, session_id, limit, io_ok) ==
    IF ~io_ok
    THEN [raised |-> FALSE, value |-> <<>>]
    ELSE LET newest_first == Reverse(FilterSeq(hist, session_id))
             cursor == IF limit = 0 THEN newest_first
                       ELSE SubSeq(newest_first, 1,
                              IF Len(newest_first) < limit THEN Len(newest_first) ELSE limit)
             chats == Reverse(cursor)
         IN  [raised |-> FALSE,
              value |-> [i \in 1..Len(chats) |->
                           [User |-> chats[i].user_input,
                            Assistant |-> chats[i].chatbot_response]]]

\* ------------------------------------------------ app/services/preprocess.py
IsUrl(source) == "scheme" \in DOMAIN source /\ source.scheme \in {"http://", "https://"}

\* file_path.suffix.lower()
lower(suffix) ==
    CASE suffix = ".PDF" -> ".pdf" [] suffix = ".TXT" -> ".txt" [] OTHER -> suffix

\* What the type-specific loader returns for one source: a PDF gives one
\* document per page, a text file or a web page gives one document.
LoaderOutput(source) ==
    IF ~IsUrl(source) /\ lower(source.suffix) = ".pdf"
    THEN <<[source |-> source, page |-> 1], [source |-> source, page |-> 2]>>
    ELSE <<[source |-> source, page |-> 1]>>

Supported(source) ==
    IsUrl(source) \/ lower(source.suffix) \in {".pdf", ".txt", ".text"}

\* A loop that a failing loader ends: what was loaded before it is returned.
RECURSIVE load_from_abort(_, _, _)
load_from_abort(sources, ok, i) ==
    IF i > Len(sources) THEN <<>>
    ELSE IF Supported(sources[i]) /\ ~ok[i] THEN <<>>
    ELSE (IF Supported(sources[i]) THEN LoaderOutput(sources[i]) ELSE <<>>)
         \o load_from_abort(sources, ok, i + 1)

RECURSIVE load_from(_, _, _)
load_from(sources, ok, i) ==
    IF i > Len(sources) THEN <<>>
    ELSE (IF Supported(sources[i]) /\ ok[i] THEN LoaderOutput(sources[i]) ELSE <<>>)
         \o load_from(sources, ok, i + 1)

\* ok[i]: whether the loader of the i-th source succeeds.
load_documents(sources, ok) ==
    IF sources = <<>> THEN <<>> ELSE load_from(sources, ok, 1)

\* splitter.split_documents: each document yields its chunks (one here).
split_documents(docs) == {docs[i] : i \in 1..Len(docs)}

Retriever(namespace) == [kind |-> "retriever", namespace |-> namespace, k |-> retriever_k]

\* An indexer that leaves the namespace out: every session shares one.
build_retriever_one_namespace(idx, loaded_docs, session_id, pinecone_ok) ==
    IF loaded_docs = <<>>
    THEN [raised |-> FALSE, value |-> NoneV, index |-> idx]
    ELSE IF ~pinecone_ok
    THEN [raised |-> TRUE, value |-> NoneV, index |-> idx]
    ELSE [raised |-> FALSE,
          value |-> Retriever(S1),
          index |-> [idx EXCEPT ![S1] = @ \cup split_documents(loaded_docs)]]

build_retriever(idx, loaded_docs, session_id, pinecone_ok) ==
    IF loaded_docs = <<>>
    THEN [raised |-> FALSE, value |-> NoneV, index |-> idx]
    ELSE IF ~pinecone_ok
    THEN [raised |-> TRUE, value |-> NoneV, index |-> idx]
    ELSE [raised |-> FALSE,
          value |-> Retriever(session_id),
          index |-> [idx EXCEPT ![session_id] = @ \cup split_documents(loaded_docs)]]

\* retriever.invoke(query): at most k chunks of the handle's namespace.
RetrieverResults(idx, retriever) ==
    LET ns == idx[retriever.namespace]
    IN  IF Cardinality(ns) <= retriever.k THEN {ns}
        ELSE {p \in SUBSET ns : Cardinality(p) = retriever.k}

\* ------------------------------------------------------ app/api/fastapi_app.py
\* A lookup that makes up a handle for a session that has none.
dict_get_or_new(d, key) ==
    IF key \in DOMAIN d /\ d[key] # NoneV THEN d[key] ELSE Retriever(key)

dict_get(d, key) == IF key \in DOMAIN d THEN d[key] ELSE NoneV

\* An assignment that rebinds the whole dict to the one new entry.
dict_set_clobber(d, key, value) == [k \in {key} |-> value]

dict_set(d, key, value) ==
    [k \in DOMAIN d \cup {key} |-> IF k = key THEN value ELSE d[k]]

chat_with_bot_except_leaky(e) ==
    [status |-> HTTP_500_INTERNAL_SERVER_ERROR,
     detail |-> IF e.kind = "HTTPException" THEN e.detail ELSE e.message]

\* `except Exception as e` of chat_with_bot: every exception raised in the
\* try block, the HTTPException of the block itself included, is answered
\* with the same 500.
chat_with_bot_except(e) ==
    [status |-> HTTP_500_INTERNAL_SERVER_ERROR,
     detail |-> "Error generating chatbot response."]

\* `except Exception as e` of upload_documents.
upload_documents_except(e) ==
    [status |-> HTTP_500_INTERNAL_SERVER_ERROR,
     detail |-> "Error processing uploaded documents."]

\* `except Exception as e` of AgentChatbot.chatbot.
chatbot_except(e) == AppException("Chatbot failed.")

\* The module-level `mango_db = AsyncMongoDatabase()` of fastapi_app.py and
\* of agent_bot.py: each constructs a client of its own at import.
MongoInstances == {"fastapi_app.mango_db", "agent_bot.mango_db"}

\* close_connection: client.close(); an error is logged, not raised.
close_connection(client, close_ok) == IF close_ok THEN "closed" ELSE client

Init ==
    /\ pc = [r \in Reqs |-> "idle"]
    /\ req = [r \in Reqs |-> NoReq]
    /\ loc = [r \in Reqs |-> NoLoc]
    /\ resp = [r \in Reqs |-> NoResp]
    /\ faults = [r \in Reqs |-> {}]
    /\ did = [r \in Reqs |-> {}]
    /\ holder = 0
    /\ retriever_cache = <<>>
    /\ index = [ns \in SessionIds |-> {}]
    /\ history = <<>>
    /\ memory = {}
    /\ tempfiles = {}
    /\ ntemp = 0
    /\ nreq = 0
    /\ server = "running"
    /\ mongo_clients = [m \in MongoInstances |-> "open"]

stores == <<retriever_cache, index, history, memory, tempfiles, ntemp>>

\* A new request is served in the first slot that holds no request in flight.
FreeSlot(r) ==
    /\ pc[r] \in {"idle", "done"}
    /\ \A o \in Reqs : o < r => pc[o] \notin {"idle", "done"}

\* A client sends POST /chat.
ArriveChat(r, sid, q) ==
    /\ server = "running"
    /\ FreeSlot(r)
    /\ nreq < MaxReq
    /\ nreq' = nreq + 1
    /\ pc' = [pc EXCEPT ![r] = "arrived"]
    /\ req' = [req EXCEPT ![r] = [kind |-> "chat", session_id |-> sid, question |-> q]]
    /\ loc' = [loc EXCEPT ![r] = NoLoc]
    /\ resp' = [resp EXCEPT ![r] = NoResp]
    /\ faults' = [faults EXCEPT ![r] = {}]
    /\ did' = [did EXCEPT ![r] = {}]
    /\ UNCHANGED <<server, mongo_clients, holder, stores>>

\* A client sends POST /upload-docs.
ArriveUpload(r, sid, files, urls) ==
    /\ server = "running"
    /\ FreeSlot(r)
    /\ nreq < MaxReq
    /\ nreq' = nreq + 1
    /\ pc' = [pc EXCEPT ![r] = "arrived"]
    /\ req' = [req EXCEPT ![r] = [kind |-> "upload", session_id |-> sid,
                                  files |-> files, urls |-> urls]]
    /\ loc' = [loc EXCEPT ![r] = NoLoc]
    /\ resp' = [resp EXCEPT ![r] = NoResp]
    /\ faults' = [faults EXCEPT ![r] = {}]
    /\ did' = [did EXCEPT ![r] = {}]
    /\ UNCHANGED <<server, mongo_clients, holder, stores>>

\* The handler of request r ends with response `out`; its locals and the
\* request body die (what stays is which endpoint and session it was for)
\* and the event loop is free again.
Finish(r, out, fault) ==
    /\ resp' = [resp EXCEPT ![r] = out]
    /\ req' = [req EXCEPT ![r] = [kind |-> req[r].kind,
                                  session_id |-> req[r].session_id]]
    /\ pc' = [pc EXCEPT ![r] = "done"]
    /\ loc' = [loc EXCEPT ![r] = NoLoc]
    /\ faults' = [faults EXCEPT ![r] = @ \cup fault]
    /\ holder' = 0

\* chat_with_bot up to the first await: the cache lookup, the precondition,
\* CreateAgent().create_agent(retriever), then chatbot() runs into
\* `await mango_db.fetch_recent_chats(...)`.
ChatBegin(r) ==
    /\ pc[r] = "arrived" /\ req[r].kind = "chat"
    /\ holder = 0
    /\ LET retriever == dict_get(retriever_cache, req[r].session_id)
       IN  IF retriever = NoneV
           THEN /\ Finish(r, chat_with_bot_except(
                              HTTPException(HTTP_400_BAD_REQUEST,
                                            "You must upload documents first.")), {})
                /\ UNCHANGED did
           ELSE \E agent_ok \in BOOLEAN :
                  IF ~agent_ok
                  THEN /\ Finish(r, chat_with_bot_except(AppException("create_agent")),
                                 {"create_agent"})
                       /\ UNCHANGED did
                  ELSE /\ loc' = [loc EXCEPT ![r].retriever = retriever]
                       /\ did' = [did EXCEPT ![r] = @ \cup {"create_agent"}]
                       /\ pc' = [pc EXCEPT ![r] = "GATHER_HISTORY"]
                       /\ holder' = 0
                       /\ UNCHANGED <<req, resp, faults>>
    /\ UNCHANGED <<server, mongo_clients, stores, nreq>>

\* The history read completes and chatbot() resumes.
ChatFetchHistory(r) ==
    /\ pc[r] = "GATHER_HISTORY"
    /\ holder = 0
    /\ \E io_ok \in BOOLEAN :
         LET res == fetch_recent_chats(history, req[r].session_id,
                                       chat_history_limit, io_ok)
             flt == IF io_ok THEN {} ELSE {"history_read"}
         IN  IF res.raised
             THEN /\ Finish(r, chat_with_bot_except(chatbot_except(AppException("fetch"))), flt)
                  /\ UNCHANGED did
             ELSE /\ loc' = [loc EXCEPT ![r].history = res.value]
                  /\ faults' = [faults EXCEPT ![r] = @ \cup flt]
                  /\ did' = [did EXCEPT ![r] = @ \cup {"fetch_recent_chats"}]
                  /\ pc' = [pc EXCEPT ![r] = "GATHER_MEMORY"]
                  /\ holder' = r
                  /\ UNCHANGED <<req, resp>>
    /\ UNCHANGED <<server, mongo_clients, stores, nreq>>

\* pc_memory.retrieve_memory(...) and the f-string of final_prompt: plain
\* calls, the request keeps the event loop.
ChatRetrieveMemory(r) ==
    /\ pc[r] = "GATHER_MEMORY"
    /\ holder = r
    /\ \E ok \in BOOLEAN, pick \in MemoryMatches(memory, req[r].session_id) :
         LET res == retrieve_memory(memory, req[r].session_id, pick, ok)
             flt == IF ok THEN {} ELSE {"memory_retrieve"}
         IN  IF res.raised
             THEN /\ Finish(r, chat_with_bot_except(chatbot_except(AppException("retrieve"))), flt)
                  /\ UNCHANGED did
             ELSE /\ loc' = [loc EXCEPT ![r].semantic_memory = res.value,
                                        ![r].final_prompt =
                                            <<loc[r].history, res.value, req[r].question>>]
                  /\ faults' = [faults EXCEPT ![r] = @ \cup flt]
                  /\ did' = [did EXCEPT ![r] = @ \cup {"retrieve_memory"}]
                  /\ pc' = [pc EXCEPT ![r] = "REASON"]
                  /\ holder' = r
                  /\ UNCHANGED <<req, resp>>
    /\ UNCHANGED <<server, mongo_clients, stores, nreq>>

\* executor.invoke({"input": final_prompt}): a plain (blocking) call; the
\* agent may call the retriever tool.  On success chatbot() runs into
\* `await mango_db.save_chat(...)`.
ChatReason(r) ==
    /\ pc[r] = "REASON"
    /\ holder = r
    /\ \E llm_ok \in BOOLEAN, tool_used \in BOOLEAN, answer \in Answers,
          results \in RetrieverResults(index, loc[r].retriever) :
         IF ~llm_ok
         THEN /\ Finish(r, chat_with_bot_except(chatbot_except(AppException("invoke"))),
                        {"llm"})
              /\ UNCHANGED did
         ELSE /\ loc' = [loc EXCEPT ![r].response_text = answer,
                                    ![r].retrieved = IF tool_used THEN results ELSE {}]
              /\ did' = [did EXCEPT ![r] = @ \cup {"invoke"}]
              /\ pc' = [pc EXCEPT ![r] = "PERSIST_TURN"]
              /\ holder' = 0
              /\ UNCHANGED <<req, resp, faults>>
    /\ UNCHANGED <<server, mongo_clients, stores, nreq>>

\* The history insert completes and chatbot() resumes.
ChatSaveChat(r) ==
    /\ pc[r] = "PERSIST_TURN"
    /\ holder = 0
    /\ \E io_ok \in BOOLEAN :
         LET res == save_chat(history, req[r].session_id, req[r].question,
                              loc[r].response_text, io_ok)
             flt == IF io_ok THEN {} ELSE {"save_chat"}
         IN  IF res.raised
             THEN /\ Finish(r, chat_with_bot_except(chatbot_except(AppException("save"))), flt)
                  /\ UNCHANGED <<did, history>>
             ELSE /\ history' = res.history
                  /\ faults' = [faults EXCEPT ![r] = @ \cup flt]
                  /\ did' = [did EXCEPT ![r] = @ \cup (IF io_ok THEN {"save_chat"} ELSE {})]
                  /\ pc' = [pc EXCEPT ![r] = "PERSIST_MEMORY"]
                  /\ holder' = r
                  /\ UNCHANGED <<req, resp, loc>>
    /\ UNCHANGED <<server, mongo_clients,
                   retriever_cache, index, memory, tempfiles, ntemp, nreq>>

\* pc_memory.store_memory(session_id, question), then chatbot() returns
\* response_text and chat_with_bot returns the 200 body.
ChatStoreMemory(r) ==
    /\ pc[r] = "PERSIST_MEMORY"
    /\ holder = r
    /\ \E embed_ok \in BOOLEAN, upsert_ok \in BOOLEAN :
         LET res == store_memory(memory, req[r].session_id, req[r].question,
                                 embed_ok, upsert_ok)
             flt == IF embed_ok /\ upsert_ok THEN {} ELSE {"store_memory"}
         IN  IF res.raised
             THEN /\ Finish(r, chat_with_bot_except(chatbot_except(AppException("store"))), flt)
                  /\ UNCHANGED <<did, memory>>
             ELSE /\ memory' = res.memory
                  /\ did' = [did EXCEPT ![r] = @ \cup (IF flt = {} THEN {"store_memory"} ELSE {})]
                  /\ Finish(r, [status |-> HTTP_200_OK,
                                session_id |-> req[r].session_id,
                                question |-> req[r].question,
                                response |-> loc[r].response_text], flt)
    /\ UNCHANGED <<server, mongo_clients,
                   retriever_cache, index, history, tempfiles, ntemp, nreq>>

\* tempfile.NamedTemporaryFile(delete=False, suffix=suffix): a fresh path.
NamedTemporaryFile(n, suffix) == [n |-> n, suffix |-> suffix]

\* os.path.splitext(file.filename)[1]
splitext_ext(file) == file.ext

\* A source as the indexer sees it; `owner` records the session whose upload
\* supplied it (each upserted vector is an entry of its own).
OwnedBy(sources, sid) == [i \in 1..Len(sources) |-> [owner |-> sid] @@ sources[i]]

\* The handler without its input check.
UploadBegin_no_check(r) ==
    /\ pc[r] = "arrived" /\ req[r].kind = "upload"
    /\ holder = 0
    /\ IF req[r].files # <<>>
       THEN LET temp == NamedTemporaryFile(ntemp + 1, splitext_ext(req[r].files[1]))
            IN  /\ tempfiles' = tempfiles \cup {temp}
                /\ ntemp' = ntemp + 1
                /\ loc' = [loc EXCEPT ![r].temp = temp]
                /\ pc' = [pc EXCEPT ![r] = "READ_FILE"]
                /\ holder' = 0
                /\ UNCHANGED <<req, resp, faults>>
       ELSE /\ pc' = [pc EXCEPT ![r] = "INDEX"]
            /\ holder' = r
            /\ UNCHANGED <<req, loc, resp, faults, tempfiles, ntemp>>
    /\ UNCHANGED <<server, mongo_clients,
                   did, retriever_cache, index, history, memory, nreq>>

\* upload_documents up to the first await: the input check, then either the
\* first temp file is created and `await file.read()` suspends, or (URLs
\* only) the handler goes on to index.
UploadBegin(r) ==
    /\ pc[r] = "arrived" /\ req[r].kind = "upload"
    /\ holder = 0
    /\ IF req[r].files = <<>> /\ req[r].urls = <<>>
       THEN /\ Finish(r, upload_documents_except(
                          HTTPException(HTTP_400_BAD_REQUEST,
                                        "Provide at least one document or URL.")), {})
            /\ UNCHANGED <<tempfiles, ntemp>>
       ELSE IF req[r].files # <<>>
       THEN LET temp == NamedTemporaryFile(ntemp + 1, splitext_ext(req[r].files[1]))
            IN  /\ tempfiles' = tempfiles \cup {temp}
                /\ ntemp' = ntemp + 1
                /\ loc' = [loc EXCEPT ![r].temp = temp]
                /\ pc' = [pc EXCEPT ![r] = "READ_FILE"]
                /\ holder' = 0
                /\ UNCHANGED <<req, resp, faults>>
       ELSE /\ pc' = [pc EXCEPT ![r] = "INDEX"]
            /\ holder' = r
            /\ UNCHANGED <<req, loc, resp, faults, tempfiles, ntemp>>
    /\ UNCHANGED <<server, mongo_clients,
                   did, retriever_cache, index, history, memory, nreq>>

\* `await file.read()` completes: the bytes are written and the path joins
\* temp_paths; the loop goes on to the next attachment or to indexing.
UploadReadFile(r) ==
    /\ pc[r] = "READ_FILE"
    /\ holder = 0
    /\ \E read_ok \in BOOLEAN :
         LET paths == Append(loc[r].temp_paths, loc[r].temp)
             i == Len(paths) + 1
         IN  IF ~read_ok
             THEN /\ Finish(r, upload_documents_except(AppException("read")), {"read"})
                  /\ UNCHANGED <<tempfiles, ntemp>>
             ELSE IF i <= Len(req[r].files)
             THEN LET temp == NamedTemporaryFile(ntemp + 1, splitext_ext(req[r].files[i]))
                  IN  /\ tempfiles' = tempfiles \cup {temp}
                      /\ ntemp' = ntemp + 1
                      /\ loc' = [loc EXCEPT ![r].temp_paths = paths, ![r].temp = temp]
                      /\ holder' = 0
                      /\ UNCHANGED <<req, pc, resp, faults>>
             ELSE /\ loc' = [loc EXCEPT ![r].temp_paths = paths, ![r].temp = NoneV]
                  /\ pc' = [pc EXCEPT ![r] = "INDEX"]
                  /\ holder' = r
                  /\ UNCHANGED <<req, resp, faults, tempfiles, ntemp>>
    /\ UNCHANGED <<server, mongo_clients,
                   did, retriever_cache, index, history, memory, nreq>>

\* load_documents, build_retriever, the registration in retriever_cache,
\* the unlink loop and the acknowledgment: no await in between.
UploadIndex(r) ==
    /\ pc[r] = "INDEX"
    /\ holder = r
    /\ LET sid == req[r].session_id
           all_sources == OwnedBy(loc[r].temp_paths \o req[r].urls, sid)
       IN  \E ok \in [1..Len(all_sources) -> BOOLEAN], pinecone_ok \in BOOLEAN :
             LET docs == load_documents(all_sources, ok)
                 res == build_retriever(index, docs, sid, pinecone_ok)
             IN  IF res.raised
                 THEN /\ Finish(r, upload_documents_except(AppException("index")),
                                {"build_retriever"})
                      /\ UNCHANGED <<did, retriever_cache, index, tempfiles>>
                 ELSE /\ index' = res.index
                      /\ retriever_cache' = dict_set(retriever_cache, sid, res.value)
                      /\ tempfiles' = tempfiles \ {loc[r].temp_paths[i] :
                                                     i \in 1..Len(loc[r].temp_paths)}
                      /\ did' = [did EXCEPT ![r] = @ \cup {"register"}]
                      /\ Finish(r, [status |-> HTTP_200_OK,
                                    message |-> "Documents processed successfully"], {})
    /\ UNCHANGED <<server, mongo_clients, history, memory, ntemp, nreq>>

\* The part of lifespan after `yield`: the server stops taking requests,
\* the requests in flight have ended, and fastapi_app's mango_db is closed.
Shutdown ==
    /\ server = "running"
    /\ \A r \in Reqs : pc[r] \in {"idle", "done"}
    /\ server' = "stopped"
    /\ \E close_ok \in BOOLEAN :
         mongo_clients' =
           [mongo_clients EXCEPT !["fastapi_app.mango_db"] = close_connection(@, close_ok)]
    /\ UNCHANGED <<pc, req, loc, resp, faults, did, holder, stores, nreq>>

Next ==
    \/ \E r \in Reqs, sid \in SessionIds, q \in Questions : ArriveChat(r, sid, q)
    \/ \E r \in Reqs, sid \in SessionIds,
          files \in SeqsUpTo(FileNames, MaxFiles), urls \in SeqsUpTo(Urls, MaxUrls) :
         ArriveUpload(r, sid, files, urls)
    \/ \E r \in Reqs : ChatBegin(r)
    \/ \E r \in Reqs : ChatFetchHistory(r)
    \/ \E r \in Reqs : ChatRetrieveMemory(r)
    \/ \E r \in Reqs : ChatReason(r)
    \/ \E r \in Reqs : ChatSaveChat(r)
    \/ \E r \in Reqs : ChatStoreMemory(r)
    \/ \E r \in Reqs : UploadBegin(r)
    \/ \E r \in Reqs : UploadReadFile(r)
    \/ \E r \in Reqs : UploadIndex(r)
    \/ Shutdown

Spec == Init /\ [][Next]_vars

TypeOK ==
    /\ holder \in Reqs \cup {0}
    /\ nreq \in 0..MaxReq
    /\ DOMAIN retriever_cache \subseteq SessionIds

\* ---------------------------------------------------------------------------
\* The memory store called directly: store_memory and retrieve_memory on
\* owners and texts of a bounded domain.  The call and its outcome are kept
\* in req[1] and resp[1], the number of calls in nreq.
Owners == SessionIds \cup {<<"s">>}
Texts == Questions \cup {<<"a">>, <<>>}

InitMem == Init

MemStore(o, t) ==
    /\ nreq < MaxStores
    /\ \E embed_ok \in BOOLEAN, upsert_ok \in BOOLEAN :
         LET res == store_memory(memory, o, t, embed_ok, upsert_ok)
         IN  /\ memory' = res.memory
             /\ req' = [req EXCEPT ![1] = [kind |-> "store_memory",
                                           user_id |-> o, memory_text |-> t]]
             /\ resp' = [resp EXCEPT ![1] =
                            [status |-> 0, raised |-> res.raised,
                             existed |-> \E e \in memory :
                                           e.user_id = o /\ e.memory = t]]
    /\ nreq' = nreq + 1
    /\ UNCHANGED <<server, mongo_clients,
                   pc, loc, faults, did, holder, retriever_cache, index,
                   history, tempfiles, ntemp>>

MemRetrieve(o, q) ==
    /\ nreq < MaxStores
    /\ \E ok \in BOOLEAN, pick \in MemoryMatches(memory, o) :
         LET res == retrieve_memory(memory, o, pick, ok)
         IN  /\ req' = [req EXCEPT ![1] = [kind |-> "retrieve_memory",
                                           user_id |-> o, query |-> q]]
             /\ resp' = [resp EXCEPT ![1] = [status |-> 0, raised |-> res.raised,
                                             value |-> res.value]]
    /\ nreq' = nreq + 1
    /\ UNCHANGED <<server, mongo_clients,
                   pc, loc, faults, did, holder, retriever_cache, index,
                   history, memory, tempfiles, ntemp>>

NextMem ==
    \/ \E o \in Owners, t \in Texts : MemStore(o, t)
    \/ \E o \in Owners, q \in Texts : MemRetrieve(o, q)

SpecMem == InitMem /\ [][NextMem]_vars

\* ---------------------------------------------------------------------------
\* Properties
Suspended == {"arrived", "GATHER_HISTORY", "PERSIST_TURN", "READ_FILE"}

IsChat(r) == req[r].kind = "chat"
IsUpload(r) == req[r].kind = "upload"

\* C1: a chat request whose session has no registered retrieval handle is
\* answered with the 400 "must upload first" client error, not with the 500.
C1_MustUploadFirstIsClientError ==
    [][\A r \in Reqs :
         (/\ pc[r] = "arrived" /\ IsChat(r)
          /\ dict_get(retriever_cache, req[r].session_id) = NoneV
          /\ pc'[r] = "done")
         => resp'[r].status = HTTP_400_BAD_REQUEST]_vars

\* C2: a chat turn whose reasoning loop produced an answer and whose history
\* append failed still returns the answer (status 200).
C2_AnswerSurvivesAppendFailure ==
    \A r \in Reqs :
      (pc[r] = "done" /\ IsChat(r) /\ "invoke" \in did[r] /\ "save_chat" \in faults[r])
      => (resp[r].status = HTTP_200_OK /\ resp[r].response \in Answers)

\* C3: a chat turn whose answer was produced and appended and whose memory
\* store failed still returns the answer (status 200).
C3_AnswerSurvivesMemoryStoreFailure ==
    \A r \in Reqs :
      (/\ pc[r] = "done" /\ IsChat(r)
       /\ {"invoke", "save_chat"} \subseteq did[r]
       /\ "store_memory" \in faults[r])
      => (resp[r].status = HTTP_200_OK /\ resp[r].response \in Answers)

\* C4: when the recent-turns read fails, the chat goes on with empty history;
\* if nothing else fails it invokes the reasoning loop, appends the turn,
\* stores the memory and returns the answer.
C4_HistoryReadFailureDegrades ==
    \A r \in Reqs :
      (IsChat(r) /\ "history_read" \in faults[r]) =>
        /\ pc[r] \in {"GATHER_MEMORY", "REASON", "PERSIST_TURN", "PERSIST_MEMORY"}
             => loc[r].history = <<>>
        /\ pc[r] = "REASON" => loc[r].final_prompt[1] = <<>>
        /\ (pc[r] = "done" /\ faults[r] = {"history_read"}) =>
             /\ resp[r].status = HTTP_200_OK
             /\ resp[r].response \in Answers
             /\ resp[r].session_id = req[r].session_id
             /\ {"invoke", "save_chat", "store_memory"} \subseteq did[r]
             /\ \E i \in 1..Len(history) :
                  history[i] = [session_id |-> resp[r].session_id,
                                user_input |-> resp[r].question,
                                chatbot_response |-> resp[r].response]

\* A chat of a session that already has a turn loses its history read and
\* still ends with the answer.
C4_Witness ==
    \E r \in Reqs :
      /\ pc[r] = "done" /\ IsChat(r) /\ faults[r] = {"history_read"}
      /\ resp[r].status = HTTP_200_OK
      /\ Len(FilterSeq(history, req[r].session_id)) >= 2

\* C5: the handle a chat on session S uses is bound to namespace S, every
\* namespace holds only chunks of its own session's uploads, and what the
\* retriever returns to a chat on S comes from uploads made for S.
C5_NamespaceIsolation ==
    /\ \A s \in DOMAIN retriever_cache :
         retriever_cache[s] # NoneV => retriever_cache[s].namespace = s
    /\ \A ns \in SessionIds : \A c \in index[ns] : c.source.owner = ns
    /\ \A r \in Reqs :
         IsChat(r) =>
           /\ loc[r].retriever # NoneV
                => loc[r].retriever.namespace = req[r].session_id
           /\ \A c \in loc[r].retrieved : c.source.owner = req[r].session_id

\* A chat got chunks from its retriever while another session's namespace
\* holds chunks too.
C5_Witness ==
    \E r \in Reqs :
      /\ IsChat(r) /\ loc[r].retrieved # {}
      /\ \E t \in SessionIds : t # req[r].session_id /\ index[t] # {}

StoreStep ==
    /\ nreq' = nreq + 1
    /\ req'[1].kind = "store_memory"
    /\ ~resp'[1].raised

PairEntries(mem, o, t) == {e \in mem : e.user_id = o /\ e.memory = t}

\* C6 as written: a store of (owner, text) leaves exactly one entry for the
\* pair and overwrites the entry of no other pair.
C6_StoreNeverOverwritesOtherPair ==
    [][StoreStep =>
         /\ Cardinality(PairEntries(memory', req'[1].user_id, req'[1].memory_text)) = 1
         /\ \A e \in memory :
              <<e.user_id, e.memory>> # <<req'[1].user_id, req'[1].memory_text>>
                => e \in memory']_vars

\* C6 amended: the id is a function of (owner, text); a store leaves exactly
\* one entry for the pair, changes nothing when the pair is already stored,
\* and keeps every entry of another owner or of a text with another digest
\* (texts of one owner with equal digests share one entry).
C6_StoreIdempotent ==
    /\ [](\A e \in memory : e.id = mem_id_of(e.user_id, e.memory))
    /\ [](\A e1 \in memory, e2 \in memory : e1.id = e2.id => e1 = e2)
    /\ [][StoreStep =>
            /\ Cardinality(PairEntries(memory', req'[1].user_id, req'[1].memory_text)) = 1
            /\ resp'[1].existed => memory' = memory
            /\ \A e \in memory :
                 (\/ e.user_id # req'[1].user_id
                  \/ md5_hexdigest(e.memory) # md5_hexdigest(req'[1].memory_text))
                   => e \in memory']_vars

\* The same pair was stored again, next to an entry of another owner.
C6_Witness ==
    /\ req[1].kind = "store_memory" /\ ~resp[1].raised /\ resp[1].existed
    /\ Cardinality(PairEntries(memory, req[1].user_id, req[1].memory_text)) = 1
    /\ \E e \in memory : e.user_id # req[1].user_id

\* C7: an upload with no attachment and no URL is answered with the 400
\* client error, not with the 500.
C7_EmptyUploadIsClientError ==
    [][\A r \in Reqs :
         (/\ pc[r] = "arrived" /\ IsUpload(r)
          /\ req[r].files = <<>> /\ req[r].urls = <<>>
          /\ pc'[r] = "done")
         => resp'[r].status = HTTP_400_BAD_REQUEST]_vars

\* C8: when an upload for S returns the acknowledgment, the registry maps S
\* to a non-null handle.
C8_AcknowledgedUploadRegistersHandle ==
    [][\A r \in Reqs :
         (/\ pc[r] = "INDEX" /\ IsUpload(r)
          /\ pc'[r] = "done" /\ resp'[r].status = HTTP_200_OK)
         => dict_get(retriever_cache', req[r].session_id) # NoneV]_vars

\* C9: while a chat is in the reasoning call, the event loop is free for
\* every other request that waits to take a step.
C9_ReasoningLeavesLoopFree ==
    \A r \in Reqs, o \in Reqs :
      (r # o /\ pc[r] = "REASON" /\ pc[o] \in Suspended) => holder = 0

\* C10: a failed memory retrieval ends the turn at once with the 500; the
\* reasoning loop is not invoked, no turn is appended, no memory is stored.
C10_MemoryRetrieveFailureIsFatal ==
    /\ [](\A r \in Reqs :
            (IsChat(r) /\ "memory_retrieve" \in faults[r]) =>
              /\ pc[r] = "done"
              /\ resp[r].status = HTTP_500_INTERNAL_SERVER_ERROR
              /\ "response" \notin DOMAIN resp[r]
              /\ did[r] \cap {"invoke", "save_chat", "store_memory"} = {})
    /\ [][\A r \in Reqs :
            (pc[r] = "GATHER_MEMORY" /\ "memory_retrieve" \in faults'[r])
              => (history' = history /\ memory' = memory)]_vars

\* A chat ended by a failed memory retrieval.
C10_Witness ==
    \E r \in Reqs :
      /\ IsChat(r) /\ pc[r] = "done" /\ "memory_retrieve" \in faults[r]
      /\ resp[r].status = HTTP_500_INTERNAL_SERVER_ERROR

\* ---------------------------------------------------------------------------
\* The history store called directly: save_chat and fetch_recent_chats for
\* sessions, turns and limits of a bounded domain.  The last call and its
\* outcome are kept in req[1] and resp[1].
TurnAnswers == {"A1", "A2"}
Limits == 0..MaxLimit

InitHist == Init

HistAppend(sid, q, a) ==
    /\ Len(history) < MaxTurns
    /\ \E io_ok \in BOOLEAN :
         LET res == save_chat(history, sid, q, a, io_ok)
         IN  /\ history' = res.history
             /\ req' = [req EXCEPT ![1] = [kind |-> "save_chat", session_id |-> sid,
                                           user_input |-> q, bot_response |-> a]]
             /\ resp' = [resp EXCEPT ![1] = [status |-> 0, raised |-> res.raised]]
    /\ UNCHANGED <<server, mongo_clients,
                   pc, loc, faults, did, holder, retriever_cache, index,
                   memory, tempfiles, ntemp, nreq>>

HistRecent(sid, n) ==
    /\ \E io_ok \in BOOLEAN :
         LET res == fetch_recent_chats(history, sid, n, io_ok)
         IN  /\ req' = [req EXCEPT ![1] = [kind |-> "fetch_recent_chats",
                                           session_id |-> sid, limit |-> n]]
             /\ resp' = [resp EXCEPT ![1] = [status |-> 0, raised |-> res.raised,
                                             io_ok |-> io_ok, value |-> res.value]]
    /\ UNCHANGED <<server, mongo_clients,
                   pc, loc, faults, did, holder, retriever_cache, index,
                   history, memory, tempfiles, ntemp, nreq>>

NextHist ==
    \/ \E sid \in SessionIds, q \in Questions, a \in TurnAnswers : HistAppend(sid, q, a)
    \/ \E sid \in SessionIds, n \in Limits : HistRecent(sid, n)

SpecHist == InitHist /\ [][NextHist]_vars

\* The positions, oldest first, of the turns of session sid in the store.
TurnsOf(sid) == {i \in 1..Len(history) : history[i].session_id = sid}

\* What a read of (sid, n) is to yield: the turns at the `want` highest
\* positions of sid, in increasing position.
IsRecent(value, sid, want) ==
    /\ Len(value) = want
    /\ \E pos \in [1..want -> TurnsOf(sid)] :
         /\ \A i \in 1..want, j \in 1..want : i < j => pos[i] < pos[j]
         /\ \A i \in 1..want : \A k \in TurnsOf(sid) : k > pos[i] =>
              \E j \in 1..want : pos[j] = k
         /\ \A i \in 1..want :
              value[i] = [User |-> history[pos[i]].user_input,
                          Assistant |-> history[pos[i]].chatbot_response]

Min(a, b) == IF a < b THEN a ELSE b

ReadDone == req[1].kind = "fetch_recent_chats" /\ resp[1].io_ok

\* C11 as written: for every limit n, a read of (S, n) yields the
\* min(n, number of S's turns) most recent turns of S, oldest first.
C11_RecentForEveryLimit ==
    ReadDone =>
      IsRecent(resp[1].value, req[1].session_id,
               Min(req[1].limit, Cardinality(TurnsOf(req[1].session_id))))

\* C11 amended: that holds for every limit n >= 1; with n = 0 the cursor is
\* not limited and the read yields all turns of S, oldest first.
C11_RecentTurnsChronological ==
    ReadDone =>
      LET sid == req[1].session_id
          count == Cardinality(TurnsOf(sid))
      IN  IF req[1].limit >= 1
          THEN IsRecent(resp[1].value, sid, Min(req[1].limit, count))
          ELSE IsRecent(resp[1].value, sid, count)

\* A read with a limit below the number of the session's turns, while the
\* other session has turns too.
C11_Witness ==
    /\ ReadDone
    /\ req[1].limit >= 1
    /\ Cardinality(TurnsOf(req[1].session_id)) > req[1].limit
    /\ \E i \in 1..Len(history) : history[i].session_id # req[1].session_id
    /\ Len(resp[1].value) = req[1].limit

\* ---------------------------------------------------------------------------
\* load_documents called directly on source lists of a bounded domain; ok[i]
\* says whether the loader of the i-th source succeeds.  One call is made;
\* the call and its result are kept in req[1] and resp[1].
LoadSources ==
    {[n |-> 1, suffix |-> ".pdf"], [n |-> 2, suffix |-> ".txt"],
     [n |-> 3, suffix |-> ".docx"], [n |-> 4, suffix |-> ".PDF"],
     [scheme |-> "https://", rest |-> "u"]}

InitLoad == Init

LoadCall(sources, ok) ==
    /\ req[1] = NoReq
    /\ req' = [req EXCEPT ![1] = [kind |-> "load_documents",
                                  sources |-> sources, ok |-> ok]]
    /\ resp' = [resp EXCEPT ![1] = [status |-> 0,
                                    value |-> load_documents(sources, ok)]]
    /\ UNCHANGED <<server, mongo_clients,
                   pc, loc, faults, did, holder, retriever_cache, index,
                   history, memory, tempfiles, ntemp, nreq>>

NextLoad ==
    \E sources \in SeqsUpTo(LoadSources, MaxSources) :
      \E ok \in [1..Len(sources) -> BOOLEAN] : LoadCall(sources, ok)

SpecLoad == InitLoad /\ [][NextLoad]_vars

LoadDone == req[1].kind = "load_documents"

\* A source of a supported type: a web address, or a file whose extension
\* is pdf, txt or text in either case.
SupportedType(src) ==
    \/ "scheme" \in DOMAIN src
    \/ "suffix" \in DOMAIN src /\ src.suffix \in {".pdf", ".PDF", ".txt", ".TXT", ".text"}

Contributes(i) == SupportedType(req[1].sources[i]) /\ req[1].ok[i]

UnitsOf(i) == IF Contributes(i) THEN Len(LoaderOutput(req[1].sources[i])) ELSE 0

\* The number of content units of the sources before the i-th.
RECURSIVE Offset(_)
Offset(i) == IF i <= 1 THEN 0 ELSE Offset(i - 1) + UnitsOf(i - 1)

\* C12: the result of load_documents is, in input order, the content units
\* of exactly the sources that are of a supported type and load; the other
\* sources contribute nothing and an empty list gives an empty result.
C12_LoadIsOrderedConcatenation ==
    LoadDone =>
      LET n == Len(req[1].sources)
          value == resp[1].value
      IN  /\ Len(value) = Offset(n + 1)
          /\ \A i \in 1..n : \A p \in 1..UnitsOf(i) :
               value[Offset(i) + p] = LoaderOutput(req[1].sources[i])[p]
          /\ n = 0 => value = <<>>

\* A batch in which a source fails, a source is unsupported and a later
\* source still contributes.
C12_Witness ==
    /\ LoadDone
    /\ \E i \in 1..Len(req[1].sources), j \in 1..Len(req[1].sources),
          k \in 1..Len(req[1].sources) :
         /\ i < j
         /\ SupportedType(req[1].sources[i]) /\ ~req[1].ok[i]
         /\ Contributes(j)
         /\ ~SupportedType(req[1].sources[k])
    /\ resp[1].value # <<>>

\* C13: once the server has shut down, every document-database client the
\* process opened is closed, the chat orchestrator's included.
C13_AllClientsClosedAtShutdown ==
    server = "stopped" => \A m \in MongoInstances : mongo_clients[m] = "closed"

\* C14: every failed chat turn is answered with the same opaque server
\* error, whichever collaborator failed; the response of a failed turn is a
\* constant, so any two failed turns get equal responses.
FailedChat(r) == IsChat(r) /\ pc[r] = "done" /\ resp[r].status # HTTP_200_OK

C14_FailedChatIsOpaque ==
    /\ \A r \in Reqs :
         FailedChat(r) =>
           resp[r] = [status |-> HTTP_500_INTERNAL_SERVER_ERROR,
                      detail |-> "Error generating chatbot response."]
    /\ \A r1, r2 \in Reqs :
         FailedChat(r1) /\ FailedChat(r2) => resp[r1] = resp[r2]

C14_Witness ==
    \E r1, r2 \in Reqs :
      /\ FailedChat(r1) /\ FailedChat(r2)
      /\ faults[r1] # {} /\ faults[r2] # {} /\ faults[r1] # faults[r2]
      /\ "memory_retrieve" \in faults[r1]
      /\ faults[r2] \cap {"llm", "save_chat", "store_memory"} # {}

\* C15: the steps of a chat turn occur only in the order gather context,
\* build prompt, reason, persist turn, persist memory.  The history grows
\* only by the turn of a request whose reasoning returned an answer; the
\* memory changes only by the question of a request whose history append
\* succeeded.  So every memory entry has its turn in the history, in every
\* reachable state.
ChatOrder ==
    {<<"arrived", "GATHER_HISTORY">>, <<"GATHER_HISTORY", "GATHER_MEMORY">>,
     <<"GATHER_MEMORY", "REASON">>, <<"REASON", "PERSIST_TURN">>,
     <<"PERSIST_TURN", "PERSIST_MEMORY">>, <<"PERSIST_MEMORY", "done">>}

TurnInHistory(hist, sid, q) ==
    \E i \in 1..Len(hist) :
      /\ hist[i].session_id = sid
      /\ hist[i].user_input = q
      /\ hist[i].chatbot_response \in Answers

MemoryHasTurn ==
    \A e \in memory : TurnInHistory(history, e.user_id, e.memory)

C15_StepOrder ==
    /\ [] MemoryHasTurn
    /\ [][\A r \in Reqs :
            IsChat(r) /\ pc[r] \notin {"idle", "done"} /\ pc'[r] # pc[r] =>
              \/ <<pc[r], pc'[r]>> \in ChatOrder
              \/ pc'[r] = "done" /\ resp'[r].status = HTTP_500_INTERNAL_SERVER_ERROR]_vars
    /\ [][history' # history =>
            \E r \in Reqs :
              /\ IsChat(r) /\ pc[r] = "PERSIST_TURN" /\ "invoke" \in did[r]
              /\ loc[r].response_text \in Answers
              /\ history' = Append(history,
                                   [session_id |-> req[r].session_id,
                                    user_input |-> req[r].question,
                                    chatbot_response |-> loc[r].response_text])]_vars
    /\ [][memory' # memory =>
            \E r \in Reqs :
              /\ IsChat(r) /\ pc[r] = "PERSIST_MEMORY" /\ "save_chat" \in did[r]
              /\ TurnInHistory(history, req[r].session_id, req[r].question)
              /\ \A e \in memory' \ memory :
                   e.user_id = req[r].session_id /\ e.memory = req[r].question]_vars

\* One turn is stored in both stores, another only in the history: its
\* memory store failed after its history append.
C15_Witness ==
    \E r1, r2 \in Reqs :
      /\ IsChat(r1) /\ pc[r1] = "done" /\ resp[r1].status = HTTP_200_OK
      /\ FailedChat(r2) /\ "store_memory" \in faults[r2] /\ "save_chat" \in did[r2]
      /\ Len(history) = 2
      /\ Cardinality(memory) = 1

\* C16: a chat request whose session has no registered retrieval handle
\* (no entry, or an entry that holds no handle) ends at its first step:
\* no agent is built, the reasoning loop is not invoked, no turn is appended
\* to the history and no memory entry is stored.  A chat that goes past its
\* first step holds a handle.
NoHandle(sid) ==
    \/ sid \notin DOMAIN retriever_cache
    \/ retriever_cache[sid] = NoneV

C16_NoHandleNoTurn ==
    /\ [][\A r \in Reqs :
            /\ IsChat(r) /\ pc[r] = "arrived" /\ pc'[r] # "arrived"
            /\ NoHandle(req[r].session_id)
            => /\ pc'[r] = "done"
               /\ resp'[r].status # HTTP_200_OK
               /\ did'[r] = {}
               /\ history' = history
               /\ memory' = memory]_vars
    /\ [](\A r \in Reqs :
            IsChat(r) /\ did[r] # {} =>
              "create_agent" \in did[r] /\ (pc[r] # "done" => loc[r].retriever # NoneV))

C16_Witness ==
    \E r \in Reqs :
      /\ FailedChat(r) /\ did[r] = {} /\ faults[r] = {}
      /\ NoHandle(req[r].session_id)
      /\ \E o \in Reqs : IsChat(o) /\ "invoke" \in did[o]

\* C17: uploads of different sessions do not interfere, however their steps
\* interleave.  The registry and the index change only in a step of an
\* upload, and a step of an upload for session S leaves the registry entry
\* and the index namespace of every other session as they were.  The entry
\* an upload writes for S is what its own indexing returned: the handle of
\* namespace S (or no handle, when nothing was loaded), so every entry of
\* the registry stems from an upload of its own session.
SameEntry(sid) ==
    /\ (sid \in DOMAIN retriever_cache') = (sid \in DOMAIN retriever_cache)
    /\ dict_get(retriever_cache', sid) = dict_get(retriever_cache, sid)

C17_UploadsDoNotInterfere ==
    /\ [][retriever_cache' # retriever_cache \/ index' # index =>
            \E r \in Reqs :
              /\ IsUpload(r) /\ pc[r] = "INDEX" /\ pc'[r] = "done"
              /\ \A sid \in SessionIds \ {req[r].session_id} :
                   SameEntry(sid) /\ index'[sid] = index[sid]
              /\ retriever_cache' # retriever_cache =>
                   /\ "register" \in did'[r]
                   /\ req[r].session_id \in DOMAIN retriever_cache'
                   /\ retriever_cache'[req[r].session_id]
                        \in {NoneV, Retriever(req[r].session_id)}
              /\ index'[req[r].session_id] # index[req[r].session_id] =>
                   retriever_cache'[req[r].session_id] = Retriever(req[r].session_id)]_vars
    /\ [](\A sid \in DOMAIN retriever_cache :
            retriever_cache[sid] \in {NoneV, Retriever(sid)})
    /\ [](\A sid \in SessionIds : \A c \in index[sid] : c.source.owner = sid)

\* Two uploads of different sessions overlapped: the second to arrive has
\* registered its handle while the first still awaits its file, and the
\* other session's entry and namespace are untouched.
C17_Witness ==
    \E r1, r2 \in Reqs :
      /\ nreq = 2
      /\ IsUpload(r1) /\ pc[r1] = "READ_FILE"
      /\ IsUpload(r2) /\ pc[r2] = "done" /\ "register" \in did[r2]
      /\ req[r1].session_id # req[r2].session_id
      /\ dict_get(retriever_cache, req[r2].session_id) = Retriever(req[r2].session_id)
      /\ index[req[r2].session_id] # {}
      /\ req[r1].session_id \notin DOMAIN retriever_cache
      /\ index[req[r1].session_id] = {}

\* C18: an upload request with no attachments and no URLs changes nothing:
\* its handler ends at its first step, upserts into no namespace of the
\* index, leaves the registry as it was for every session (a handle that
\* was registered for the same session stays registered), and creates no
\* temporary file.
EmptyUpload(r) ==
    /\ IsUpload(r) /\ pc[r] \notin {"idle", "done"}
    /\ req[r].files = <<>> /\ req[r].urls = <<>>

C18_EmptyUploadChangesNothing ==
    [][\A r \in Reqs :
         EmptyUpload(r) /\ pc'[r] # pc[r] =>
           /\ pc'[r] = "done"
           /\ resp'[r].status # HTTP_200_OK
           /\ did'[r] = {}
           /\ UNCHANGED <<retriever_cache, index, history, memory, tempfiles>>]_vars

\* An upload ended without any collaborator failing and without any effect,
\* and the handle an earlier upload registered for its session is still there.
C18_Witness ==
    \E r \in Reqs :
      /\ IsUpload(r) /\ pc[r] = "done"
      /\ resp[r].status = HTTP_500_INTERNAL_SERVER_ERROR
      /\ did[r] = {} /\ faults[r] = {}
      /\ dict_get(retriever_cache, req[r].session_id) = Retriever(req[r].session_id)
      /\ index[req[r].session_id] # {}

\* C19: whenever a chat is answered with 200, both persistence steps of
\* that turn have run and succeeded: the turn's (session id, question,
\* answer) record is in the history, and at the moment of the answer the
\* memory holds the question as an entry of that session.
AnsweredChat(r) == IsChat(r) /\ pc[r] = "done" /\ resp[r].status = HTTP_200_OK

C19_AnswerImpliesPersisted ==
    /\ [](\A r \in Reqs :
            AnsweredChat(r) =>
              /\ {"invoke", "save_chat", "store_memory"} \subseteq did[r]
              /\ faults[r] \cap {"llm", "save_chat", "store_memory"} = {}
              /\ \E i \in 1..Len(history) :
                   history[i] = [session_id |-> resp[r].session_id,
                                 user_input |-> resp[r].question,
                                 chatbot_response |-> resp[r].response]
              /\ \E e \in memory :
                   /\ e.id = mem_id_of(resp[r].session_id, resp[r].question)
                   /\ e.user_id = resp[r].session_id)
    /\ [][\A r \in Reqs :
            AnsweredChat(r)' /\ pc[r] # "done" =>
              /\ pc[r] = "PERSIST_MEMORY"
              /\ [id |-> mem_id_of(req[r].session_id, req[r].question),
                  user_id |-> req[r].session_id,
                  memory |-> req[r].question] \in memory'
              /\ TurnInHistory(history, req[r].session_id, req[r].question)]_vars

C19_Witness ==
    \E r \in Reqs :
      /\ AnsweredChat(r)
      /\ Len(history) = 1
      /\ memory = {[id |-> mem_id_of(resp[r].session_id, resp[r].question),
                    user_id |-> resp[r].session_id,
                    memory |-> resp[r].question]}

\* C20: every temporary file an upload created for its attachments is
\* deleted by the time the request completes, with the acknowledgment or
\* with an error: a temporary file that exists belongs to an upload that is
\* still in flight.
OwnsTemp(r, t) ==
    /\ IsUpload(r) /\ pc[r] \in {"READ_FILE", "INDEX"}
    /\ \/ t = loc[r].temp
       \/ \E i \in 1..Len(loc[r].temp_paths) : loc[r].temp_paths[i] = t

C20_TempFilesDeletedAtCompletion ==
    \A t \in tempfiles : \E r \in Reqs : OwnsTemp(r, t)

====
